---- MODULE Spec2Model ----
(***************************************************************************)
(* Model of src/src/ui/multi_agent_local.py: the round-robin multi-agent   *)
(* loop run_multi_agent_chat, its termination predicates, the HTML         *)
(* extraction and the git publish step.                                    *)
(*                                                                         *)
(* Text is modelled as a sequence of tokens.  A token stands for a piece   *)
(* of text that the program's string operations never split (a word, a     *)
(* phrase, one white-space character, a code fence).  strip, upper, the    *)
(* substring test and the regular expression of extract_html are computed  *)
(* on these sequences.  The code fence of three backquotes is written ~~~. *)
(***************************************************************************)
EXTENDS Integers, Sequences, FiniteSets, TLC

VARIABLES
    api_key,               \* TRUE iff ANTHROPIC_API_KEY is set (line 214)
    history,               \* List[Message] (line 218)
    round_idx,             \* line 227
    agent_idx,             \* line 228
    waiting_for_approval,  \* line 229
    pc,                    \* position of run_multi_agent_chat
    messages,              \* messages of the latest completion call (line 112)
    api_calls,             \* number of client.messages.create calls so far
    extracted,             \* TRUE iff extract_html has been called (line 239)
    html,                  \* its result (line 239)
    index_html,            \* the file written by save_html (line 147)
    git_log,               \* the git commands run by push_to_github, with results
    push_ok                \* "none", or the value of ok (line 174)

vars == <<api_key, history, round_idx, agent_idx, waiting_for_approval, pc,
          messages, api_calls, extracted, html, index_html, git_log, push_ok>>

----------------------------------------------------------------------------
(* Bounds of the model *)

\* the round cap (20 in the source), scaled down
MAX_ROUNDS == 4

\* the longest history the model follows
MaxHistory == 8

----------------------------------------------------------------------------
(* Text *)

WS == " "

IsSpace(tok) == tok = WS

\* str.upper on one token
UpperTok(tok) ==
    CASE tok = "approved" -> "APPROVED"
      [] tok = "Approved" -> "APPROVED"
      [] tok = "not" -> "NOT"
      [] tok = "x" -> "X"
      [] tok = "ready for user approval" -> "READY FOR USER APPROVAL"
      [] tok = "Ready For User Approval" -> "READY FOR USER APPROVAL"
      [] tok = "~~~html" -> "~~~HTML"
      [] tok = "<a>" -> "<A>"
      [] tok = "<b>" -> "<B>"
      [] OTHER -> tok

\* str.upper
Upper(s) == [i \in 1..Len(s) |-> UpperTok(s[i])]

\* str.strip: drops the leading and the trailing white space
Strip(s) ==
    IF \A i \in 1..Len(s) : IsSpace(s[i]) THEN <<>>
    ELSE SubSeq(s,
                CHOOSE i \in 1..Len(s) :
                    ~IsSpace(s[i]) /\ \A j \in 1..(i-1) : IsSpace(s[j]),
                CHOOSE i \in 1..Len(s) :
                    ~IsSpace(s[i]) /\ \A j \in (i+1)..Len(s) : IsSpace(s[j]))

\* the operator  in  on strings: sub is one phrase
Contains(s, sub) == \E i \in 1..Len(s) : s[i] = sub

----------------------------------------------------------------------------
(* Data model *)

AGENT_ORDER == <<"BusinessAnalyst", "SoftwareEngineer", "ProductOwner">>

Message(role, name, content) == [role |-> role, name |-> name, content |-> content]

\* list.index, 0-based as in Python
IndexOf(seq, x) == (CHOOSE i \in 1..Len(seq) : seq[i] = x /\ \A j \in 1..(i-1) : seq[j] # x) - 1

----------------------------------------------------------------------------
(* extract_html, lines 137-143 *)

FENCE == "~~~"

\* the pattern's literal prefix, matched with re.IGNORECASE
IsOpenFence(tok) == UpperTok(tok) = "~~~HTML"

\* a token at which the three closing backquotes of the pattern can match:
\* a bare fence, or the first three characters of another opening fence
StartsWithFence(tok) == tok = FENCE \/ IsOpenFence(tok)

\* the positions at which pattern.search can start a match in content:
\* an opening fence that has a fence somewhere after it
IsMatchStart(content, i) ==
    /\ IsOpenFence(content[i])
    /\ \E j \in (i+1)..Len(content) : StartsWithFence(content[j])

MatchStarts(content) == {i \in 1..Len(content) : IsMatchStart(content, i)}

\* the end of the non-greedy match that starts at i: the nearest fence
MatchEnd(content, i) ==
    CHOOSE j \in (i+1)..Len(content) :
        /\ StartsWithFence(content[j])
        /\ \A k \in (i+1)..(j-1) : ~StartsWithFence(content[k])

\* pattern.search(content): the leftmost match, group(1)
FirstMatchStart(content) ==
    CHOOSE i \in 1..Len(content) :
        IsMatchStart(content, i) /\ \A j \in 1..(i-1) : ~IsMatchStart(content, j)

\* match is not None, for match = pattern.search(msg.content)
HasMatch(msg) == \E i \in 1..Len(msg.content) : IsMatchStart(msg.content, i)

\* match.group(1) of the leftmost match
Group1(content) ==
    SubSeq(content, FirstMatchStart(content) + 1,
           MatchEnd(content, FirstMatchStart(content)) - 1)

\* the index of the first message of reversed(h) that has a match, 0 if none
LastWithMatch(h) ==
    CHOOSE i \in 0..Len(h) :
        /\ i = 0 \/ HasMatch(h[i])
        /\ \A j \in (i+1)..Len(h) : ~HasMatch(h[j])

\* extract_html falling back to the latest message when nothing matches
extract_html_fallback(h) ==
    IF LastWithMatch(h) = 0 THEN [found |-> TRUE, text |-> Strip(h[Len(h)].content)]
    ELSE [found |-> TRUE, text |-> Strip(Group1(h[LastWithMatch(h)].content))]

\* found = FALSE stands for None
extract_html(h) ==
    IF LastWithMatch(h) = 0 THEN [found |-> FALSE, text |-> <<>>]
    ELSE [found |-> TRUE, text |-> Strip(Group1(h[LastWithMatch(h)].content))]

\* the truth value of  html  in  if html:  (line 240)
Truthy(r) == r.found /\ r.text # <<>>

----------------------------------------------------------------------------
(* Termination checks, lines 193-206 *)

IsUser(msg) == msg.name = "User"

IsProductOwner(msg) == msg.name = "ProductOwner"

\* the index of the first message of reversed(h) named User, 0 if none
LastUser(h) ==
    CHOOSE i \in 0..Len(h) :
        /\ i = 0 \/ IsUser(h[i])
        /\ \A j \in (i+1)..Len(h) : ~IsUser(h[j])

\* the index of the first message of reversed(h) named ProductOwner, 0 if none
LastProductOwner(h) ==
    CHOOSE i \in 0..Len(h) :
        /\ i = 0 \/ IsProductOwner(h[i])
        /\ \A j \in (i+1)..Len(h) : ~IsProductOwner(h[j])

\* should_terminate looking at every message of the user, not the latest
should_terminate_any(h) ==
    \E i \in 1..Len(h) :
        IsUser(h[i]) /\ Upper(Strip(h[i].content)) = <<"APPROVED">>

\* should_terminate without upper()
should_terminate_cased(h) ==
    IF LastUser(h) = 0 THEN FALSE
    ELSE Strip(h[LastUser(h)].content) = <<"APPROVED">>

should_terminate(h) ==
    IF LastUser(h) = 0 THEN FALSE
    ELSE Upper(Strip(h[LastUser(h)].content)) = <<"APPROVED">>

\* product_owner_ready looking at every message of the ProductOwner
product_owner_ready_any(h) ==
    \E i \in 1..Len(h) :
        IsProductOwner(h[i]) /\ Contains(Upper(h[i].content), "READY FOR USER APPROVAL")

\* product_owner_ready without upper()
product_owner_ready_cased(h) ==
    IF LastProductOwner(h) = 0 THEN FALSE
    ELSE Contains(h[LastProductOwner(h)].content, "READY FOR USER APPROVAL")

product_owner_ready(h) ==
    IF LastProductOwner(h) = 0 THEN FALSE
    ELSE Contains(Upper(h[LastProductOwner(h)].content),
                  "READY FOR USER APPROVAL")

----------------------------------------------------------------------------
(* ClaudeAgent.respond, lines 107-130 *)

\* line 114: the speaker label
Label(msg) == IF msg.name # "User" THEN <<"[", msg.name, "]: ">> ELSE <<"[User]: ">>

\* respond without the closing message of lines 118-122
BuildMessagesFlat(name, h) ==
    [i \in 1..Len(h) |-> [role |-> h[i].role, content |-> Label(h[i]) \o h[i].content]]

\* lines 112-122: the messages sent to client.messages.create
BuildMessages(name, h) ==
    LET flat == [i \in 1..Len(h) |->
                    [role |-> h[i].role, content |-> Label(h[i]) \o h[i].content]]
    IN  IF flat # <<>> /\ flat[Len(flat)].role = "assistant"
        THEN Append(flat, [role |-> "user",
                           content |-> <<"[System]: Please continue as ", name, ".">>])
        ELSE flat

----------------------------------------------------------------------------
(* push_to_github, lines 152-186 *)

GitCommands == <<"add", "commit", "push">>

\* what one git command can do: exit 0, exit non-zero printing
\* "nothing to commit", exit non-zero otherwise
GitResults == {"ok", "nothing_to_commit", "fail"}

\* run taking every non-zero exit for a failure
run_strict(result) == result = "ok"

\* run, lines 159-171
run(result) == result # "fail"

\* lines 174-178: the commands that the chain of  and  reaches
Attempted(r) ==
    IF ~run(r[1]) THEN 1
    ELSE IF ~run(r[2]) THEN 2
    ELSE 3

\* the commands run, each with its result
GitLog(r) == [i \in 1..Attempted(r) |-> [cmd |-> GitCommands[i], result |-> r[i]]]

\* ok, lines 174-178
PushOk(r) == run(r[1]) /\ run(r[2]) /\ run(r[3])

----------------------------------------------------------------------------
(* Inputs *)

\* what the completion service can answer
AgentOutputs ==
    { <<"x">>,
      <<"x", WS, "Ready For User Approval">>,
      <<"~~~HTML", WS, "<a>", WS, "~~~">>,
      <<"~~~html", "<a>", "~~~", "x", "~~~html", "<b>", "~~~", "READY FOR USER APPROVAL">>,
      <<"~~~html", WS, "~~~">> }

\* what the human can type at the approval prompt
HumanInputs ==
    { <<WS, "approved", WS>>,
      <<"APPROVED">>,
      <<>>,
      <<"not", WS, "approved">>,
      <<"~~~html", "<b>", "~~~">> }

\* the user_request argument
UserRequests == { <<"x">>, <<"APPROVED">> }

----------------------------------------------------------------------------
(* run_multi_agent_chat, lines 213-273 *)

NoHtml == [found |-> FALSE, text |-> <<>>]

NoFile == [written |-> FALSE, content |-> <<>>]

\* lines 214-229, for the keys and the requests given
InitOn(keys, requests) ==
    /\ api_key \in keys
    /\ \E req \in requests : history = <<Message("user", "User", req)>>
    /\ round_idx = 0
    /\ agent_idx = 0
    /\ waiting_for_approval = FALSE
    /\ pc = "agent"
    /\ messages = <<>>
    /\ api_calls = 0
    /\ extracted = FALSE
    /\ html = NoHtml
    /\ index_html = NoFile
    /\ git_log = <<>>
    /\ push_ok = "none"

Init == InitOn(BOOLEAN, UserRequests)

\* the loop condition with <= for <
LoopCondInclusive(r) == r <= MAX_ROUNDS

\* line 231: the condition of the while loop
LoopCond(r) == r < MAX_ROUNDS

\* the rotation one position ahead
CurrentAgentSkewed(idx) == AGENT_ORDER[((idx + 1) % Len(AGENT_ORDER)) + 1]

\* line 252
CurrentAgent(idx) == AGENT_ORDER[(idx % Len(AGENT_ORDER)) + 1]

\* re-entry at the head of the rotation
ReentryIndexFirst == IndexOf(AGENT_ORDER, "BusinessAnalyst")

\* line 249
ReentryIndex == IndexOf(AGENT_ORDER, "ProductOwner")

\* line 264
ReadyForApproval(name, h) == name = "ProductOwner" /\ product_owner_ready(h)

\* the ready turn and the prompt counted as rounds when the cap is tested
AfterTurnCountsReady(r, waiting) ==
    IF LoopCond(IF waiting THEN r + 2 ELSE r)
    THEN (IF waiting THEN "prompt" ELSE "agent")
    ELSE "max_rounds"

\* where the loop goes after the agent's part of an iteration (lines 231, 232)
AfterTurn(r, waiting) ==
    IF LoopCond(r) THEN (IF waiting THEN "prompt" ELSE "agent") ELSE "max_rounds"

\* lines 252-270: one agent speaks, answering one of outputs
AgentTurnOn(outputs) ==
    /\ pc = "agent"
    /\ Len(history) < MaxHistory
    /\ api_key
    /\ \E response \in outputs :
        LET name == CurrentAgent(agent_idx)
            h2 == Append(history, Message("assistant", name, response))
        IN  /\ messages' = BuildMessages(name, history)
            /\ api_calls' = api_calls + 1
            /\ history' = h2
            /\ IF ReadyForApproval(name, h2)
               THEN /\ waiting_for_approval' = TRUE
                    /\ UNCHANGED <<agent_idx, round_idx>>
               ELSE /\ agent_idx' = agent_idx + 1
                    /\ round_idx' = round_idx + 1
                    /\ UNCHANGED waiting_for_approval
            /\ pc' = AfterTurn(round_idx', waiting_for_approval')
    /\ UNCHANGED <<api_key, extracted, html, index_html, git_log, push_ok>>

AgentTurn == AgentTurnOn(AgentOutputs)

\* the failure recorded as a turn of the history
AgentFailsRecorded ==
    /\ pc = "agent"
    /\ Len(history) < MaxHistory
    /\ messages' = BuildMessages(CurrentAgent(agent_idx), history)
    /\ api_calls' = api_calls + 1
    /\ history' = Append(history, Message("assistant", CurrentAgent(agent_idx), <<"Error">>))
    /\ pc' = "error"
    /\ UNCHANGED <<api_key, round_idx, agent_idx, waiting_for_approval,
                   extracted, html, index_html, git_log, push_ok>>

\* lines 124-130: client.messages.create raises (always without a key), or
\* the answer has no content block; the exception leaves run_multi_agent_chat
AgentFails ==
    /\ pc = "agent"
    /\ Len(history) < MaxHistory
    /\ messages' = BuildMessages(CurrentAgent(agent_idx), history)
    /\ api_calls' = api_calls + 1
    /\ pc' = "error"
    /\ UNCHANGED <<api_key, history, round_idx, agent_idx, waiting_for_approval,
                   extracted, html, index_html, git_log, push_ok>>

\* a failing git command raising out of the session
AfterApprovalRaises(found, r) ==
    IF Truthy(found) /\ ~PushOk(r) THEN "error" ELSE "completed"

\* lines 238-245: the post-approval steps return and the loop breaks
AfterApproval(found, r) == "completed"

\* lines 234-245: the human types APPROVED, as one of inputs; r is what the
\* three git commands would do
HumanApprovesOn(inputs) ==
    /\ pc = "prompt"
    /\ Len(history) < MaxHistory
    /\ \E raw \in inputs :
        \E h2 \in {Append(history, Message("user", "User", Strip(raw)))} :
            /\ should_terminate(h2)
            /\ \E found \in {extract_html(h2)}, r \in [1..3 -> GitResults] :
                /\ history' = h2
                /\ extracted' = TRUE
                /\ html' = found
                /\ index_html' = IF Truthy(found)
                                  THEN [written |-> TRUE, content |-> found.text]
                                  ELSE index_html
                /\ git_log' = IF Truthy(found) THEN GitLog(r) ELSE git_log
                /\ push_ok' = IF ~Truthy(found) THEN push_ok
                               ELSE IF PushOk(r) THEN "ok" ELSE "failed"
                /\ pc' = AfterApproval(found, r)
    /\ UNCHANGED <<api_key, round_idx, agent_idx, waiting_for_approval, messages, api_calls>>

HumanApproves == HumanApprovesOn(HumanInputs)

\* the feedback starting the history afresh
HumanFeedbackRestarts(inputs) ==
    /\ pc = "prompt"
    /\ Len(history) < MaxHistory
    /\ \E raw \in inputs :
        LET h2 == Append(history, Message("user", "User", Strip(raw)))
        IN  /\ ~should_terminate(h2)
            /\ history' = <<Message("user", "User", Strip(raw))>>
            /\ waiting_for_approval' = FALSE
            /\ agent_idx' = ReentryIndex
            /\ pc' = "agent"
    /\ UNCHANGED <<api_key, round_idx, messages, api_calls, extracted, html,
                   index_html, git_log, push_ok>>

\* lines 234-249: the human types anything else, as one of inputs
HumanFeedbackOn(inputs) ==
    /\ pc = "prompt"
    /\ Len(history) < MaxHistory
    /\ \E raw \in inputs :
        LET h2 == Append(history, Message("user", "User", Strip(raw)))
        IN  /\ ~should_terminate(h2)
            /\ history' = h2
            /\ waiting_for_approval' = FALSE
            /\ agent_idx' = ReentryIndex
            /\ pc' = "agent"
    /\ UNCHANGED <<api_key, round_idx, messages, api_calls, extracted, html,
                   index_html, git_log, push_ok>>

HumanFeedback == HumanFeedbackOn(HumanInputs)

Next ==
    \/ AgentTurn
    \/ AgentFails
    \/ HumanApproves
    \/ HumanFeedback

Spec == Init /\ [][Next]_vars

----------------------------------------------------------------------------
(* Types *)

TypeOK ==
    /\ api_key \in BOOLEAN
    /\ round_idx \in 0..MAX_ROUNDS
    /\ agent_idx \in 0..(MAX_ROUNDS + 2)
    /\ waiting_for_approval \in BOOLEAN
    /\ pc \in {"agent", "prompt", "completed", "max_rounds", "error"}
    /\ Len(history) \in 1..MaxHistory
    /\ push_ok \in {"none", "ok", "failed"}

\* The loop alone: a key is set, every completion call and every read of the
\* human's input returns, and the texts are reduced to what the loop's
\* conditions tell apart.
LoopOutputs == { <<"x">>, <<"READY FOR USER APPROVAL">>, <<"~~~html", "<a>", "~~~">> }

LoopInputs == { <<"APPROVED">>, <<"x">>, <<>> }

LoopInit == InitOn({TRUE}, { <<"x">> })

LoopAgentTurn == AgentTurnOn(LoopOutputs)

LoopHumanApproves == HumanApprovesOn(LoopInputs)

LoopHumanFeedback == HumanFeedbackOn(LoopInputs)

LoopNext ==
    \/ LoopAgentTurn
    \/ LoopHumanApproves
    \/ LoopHumanFeedback

LoopSpec == LoopInit /\ [][LoopNext]_vars

----------------------------------------------------------------------------
(* Vocabulary of the properties *)

LastTurn(h) == h[Len(h)]

\* the contents that are APPROVED up to case, listed
Approving(content) == content \in { <<"APPROVED">>, <<"approved">>, <<"Approved">> }

\* the contents that hold the readiness phrase in some case, listed
ReadyText(content) ==
    \E i \in 1..Len(content) :
        content[i] \in { "READY FOR USER APPROVAL", "ready for user approval",
                         "Ready For User Approval" }

AgentTurns(h) == Cardinality({i \in 1..Len(h) : h[i].role = "assistant"})

HumanTurns(h) == Cardinality({i \in 1..Len(h) : h[i].name = "User"})

\* no turn of the ProductOwner signals readiness
NoReadiness(h) ==
    \A i \in 1..Len(h) : h[i].name = "ProductOwner" => ~ReadyText(h[i].content)

Released == extracted \/ index_html.written \/ git_log # <<>> \/ push_ok # "none"

Ended == pc \in {"completed", "max_rounds", "error"}

----------------------------------------------------------------------------
(* Properties *)

\* C1: extraction, the file write and the publish happen only in a session
\* that ended on a human turn equal to APPROVED up to case, typed at the
\* approval prompt that follows a readiness turn of the ProductOwner; the
\* initial request, a feedback input and the round cap release nothing.
C1_ReleaseGated ==
    Released =>
        /\ pc = "completed"
        /\ waiting_for_approval
        /\ Len(history) >= 3
        /\ LastTurn(history).name = "User"
        /\ Approving(LastTurn(history).content)
        /\ history[Len(history) - 1].name = "ProductOwner"
        /\ ReadyText(history[Len(history) - 1].content)

C1_Witness ==
    /\ index_html.written
    /\ git_log # <<>>
    /\ history[1].content = <<"APPROVED">>

\* C2: at the approval prompt an input that is APPROVED after trimming and
\* case folding completes the session, and a completed session takes no
\* further step; every other input leaves the session running.
C2_ApprovalDecides ==
    [][ /\ pc # "completed"
        /\ pc = "prompt" =>
              /\ LastTurn(history').name = "User"
              /\ Len(history') = Len(history) + 1
              /\ Approving(LastTurn(history').content) => pc' = "completed"
              /\ ~Approving(LastTurn(history').content) => pc' = "agent" ]_vars

C2_Witness ==
    /\ pc = "completed"
    /\ LastTurn(history).content = <<"approved">>

\* C3: a non-approving input at the approval prompt returns the loop to the
\* rotation at the ProductOwner: the next turn appended is the
\* ProductOwner's, and the turn after a ProductOwner turn that answers
\* feedback without signalling readiness is the BusinessAnalyst's.
C3_FeedbackReentersAtProductOwner ==
    [][ /\ (pc = "prompt" /\ pc' # "completed") =>
              /\ pc' = "agent"
              /\ ~waiting_for_approval'
              /\ agent_idx' % 3 = 2
        /\ (pc = "agent" /\ Len(history) > 1 /\ LastTurn(history).name = "User"
                /\ history' # history) =>
              LastTurn(history').name = "ProductOwner"
        /\ (pc = "agent" /\ Len(history) > 2 /\ LastTurn(history).name = "ProductOwner"
                /\ history[Len(history) - 1].name = "User" /\ history' # history) =>
              LastTurn(history').name = "BusinessAnalyst" ]_vars

C3_Witness ==
    \E i \in 2..(Len(history) - 2) :
        /\ history[i].name = "User"
        /\ history[i + 1].name = "ProductOwner"
        /\ history[i + 2].name = "BusinessAnalyst"

\* C4: a ProductOwner turn that holds the readiness phrase in any case leads
\* to the approval prompt with agent_idx and round_idx unchanged, and the step
\* taken at the prompt is a human turn without a completion call.
C4_ReadinessOpensGate ==
    [][ /\ (pc = "agent" /\ history' # history
                /\ LastTurn(history').name = "ProductOwner"
                /\ ReadyText(LastTurn(history').content)) =>
              /\ pc' = "prompt"
              /\ waiting_for_approval'
              /\ agent_idx' = agent_idx
              /\ round_idx' = round_idx
        /\ pc = "prompt" =>
              /\ LastTurn(history').name = "User"
              /\ api_calls' = api_calls ]_vars

C4_Witness ==
    /\ pc = "prompt"
    /\ LastTurn(history).name = "ProductOwner"
    /\ LastTurn(history).content = <<"x", WS, "Ready For User Approval">>
    /\ round_idx = 2

\* C5: without a readiness turn of the ProductOwner the approval gate is
\* never entered and the human is never prompted; the gate is entered only by
\* a step that appends a ProductOwner turn holding the phrase, so neither
\* another agent's use of the phrase nor an earlier ready turn enters it.
C5_OnlyReadinessOpensGate ==
    /\ [](NoReadiness(history) =>
              /\ ~waiting_for_approval
              /\ pc # "prompt"
              /\ HumanTurns(history) = 1)
    /\ [][ (~waiting_for_approval /\ waiting_for_approval') =>
              /\ LastTurn(history').name = "ProductOwner"
              /\ ReadyText(LastTurn(history').content)
              /\ Len(history') = Len(history) + 1 ]_vars

C5_Witness ==
    /\ ~waiting_for_approval
    /\ pc = "agent"
    /\ LastTurn(history).name = "ProductOwner"
    /\ ~ReadyText(LastTurn(history).content)
    /\ \E i \in 1..Len(history) :
          history[i].name = "ProductOwner" /\ ReadyText(history[i].content)
    /\ \E i \in 1..Len(history) :
          history[i].name = "BusinessAnalyst" /\ ReadyText(history[i].content)

\* the rotation of C6, written out
Rotation(k) ==
    CASE k % 3 = 0 -> "BusinessAnalyst"
      [] k % 3 = 1 -> "SoftwareEngineer"
      [] k % 3 = 2 -> "ProductOwner"

\* C6: while no ProductOwner turn signals readiness, the k-th agent turn
\* (k from 0) is authored by BusinessAnalyst, SoftwareEngineer, ProductOwner
\* in turn, and there are at most MAX_ROUNDS of them.
C6_RotationOrder ==
    NoReadiness(history) =>
        /\ Len(history) - 1 <= MAX_ROUNDS
        /\ \A k \in 0..(Len(history) - 2) :
              /\ history[k + 2].role = "assistant"
              /\ history[k + 2].name = Rotation(k)

C6_Witness ==
    /\ NoReadiness(history)
    /\ Len(history) = 5
    /\ LastTurn(history).name = "BusinessAnalyst"

\* C7: a session without readiness that does not fail ends exactly when
\* MAX_ROUNDS agent turns are in the history, with the max-rounds outcome, and
\* extracts, writes and publishes nothing.
C7_RoundCap ==
    (NoReadiness(history) /\ pc # "error") =>
        /\ (pc = "max_rounds") = (AgentTurns(history) = MAX_ROUNDS)
        /\ (pc # "max_rounds") = (pc = "agent")
        /\ AgentTurns(history) <= MAX_ROUNDS
        /\ ~Released

C7_Witness ==
    /\ pc = "max_rounds"
    /\ NoReadiness(history)
    /\ AgentTurns(history) = MAX_ROUNDS

\* C8: round_idx is the number of agent turns in the history, so a session
\* never holds more than MAX_ROUNDS agent turns.
C8_RoundCountIsAgentTurns ==
    /\ round_idx = AgentTurns(history)
    /\ AgentTurns(history) <= MAX_ROUNDS

\* C9: the round cap ends every session, whatever the agents answer and the
\* human types: the body of the loop calls an agent at most MAX_ROUNDS times,
\* so a session that is still running has called one fewer than MAX_ROUNDS
\* times.
C9_CapEndsSession == ~Ended => api_calls < MAX_ROUNDS

RECURSIVE Blocks(_, _)
\* the fenced html blocks of content from position from on, in order
Blocks(content, from) ==
    LET S == {i \in MatchStarts(content) : i >= from}
    IN  IF S = {} THEN <<>>
        ELSE LET i == CHOOSE a \in S : \A b \in S : a <= b
                 j == MatchEnd(content, i)
             IN  <<SubSeq(content, i + 1, j - 1)>> \o Blocks(content, j + 1)

\* all the fenced html blocks of the history, in order
RECURSIVE AllBlocks(_)
AllBlocks(h) ==
    IF h = <<>> THEN <<>>
    ELSE AllBlocks(SubSeq(h, 1, Len(h) - 1)) \o Blocks(LastTurn(h).content, 1)

\* C10: when the history holds a fenced html block, extract_html returns the
\* content of the block that comes last in the history.
C10_ExtractsLatestBlock ==
    (extracted /\ AllBlocks(history) # <<>>) =>
        /\ html.found
        /\ html.text = Strip(LastTurn(AllBlocks(history)))

\* C11: an approval given when the history holds no fenced html block
\* completes the session: extract_html has run and found nothing, no file is
\* written and no git command is run.
C11_NoBlockSkipsPublish ==
    [][ (pc = "prompt" /\ Approving(LastTurn(history').content)
            /\ AllBlocks(history') = <<>>) =>
          /\ pc' = "completed"
          /\ extracted'
          /\ ~html'.found
          /\ ~index_html'.written
          /\ git_log' = <<>>
          /\ push_ok' = "none" ]_vars

C11_Witness ==
    /\ pc = "completed"
    /\ extracted
    /\ AllBlocks(history) = <<>>
    /\ git_log = <<>>

\* the message that respond adds for the agent called
ContinueAs(name) == <<"[System]: Please continue as ", name, ".">>

IsSynthetic(content) == content # <<>> /\ content[1] = "[System]: Please continue as "

\* C12: every completion call is sent a sequence that ends with a message of
\* role user: the history's turns in order, followed by exactly one
\* "[System]: Please continue as <agent>." when the last turn is an agent's and
\* by nothing when it is the human's; the call leaves the turns of the history
\* as they were and the added message is never a turn of the history.
C12_OutboundEndsWithUser ==
    [][ api_calls' # api_calls =>
          /\ messages' # <<>>
          /\ LastTurn(messages').role = "user"
          /\ \A i \in 1..Len(history) :
                /\ messages'[i].role = history[i].role
                /\ ~IsSynthetic(messages'[i].content)
          /\ IF LastTurn(history).role = "assistant"
             THEN /\ Len(messages') = Len(history) + 1
                  /\ LastTurn(messages').content = ContinueAs(Rotation(agent_idx))
             ELSE Len(messages') = Len(history)
          /\ SubSeq(history', 1, Len(history)) = history
          /\ \A i \in 1..Len(history') : ~IsSynthetic(history'[i].content) ]_vars

C12_Witness ==
    /\ pc = "error"
    /\ LastTurn(history).role = "assistant"
    /\ Len(messages) = Len(history) + 1
    /\ LastTurn(messages).content = ContinueAs("ProductOwner")

\* C13: the messages sent to the completion service alternate between the
\* roles user and assistant.
C13_RolesAlternate ==
    \A i \in 1..(Len(messages) - 1) : messages[i].role # messages[i + 1].role

\* C14: the history starts with the human's request and only grows: a step
\* leaves it as it is or appends one turn to it.
C14_AppendOnly ==
    /\ [](/\ history # <<>>
          /\ history[1].name = "User"
          /\ history[1].role = "user"
          /\ history[1].content \in UserRequests)
    /\ [][ \/ history' = history
           \/ /\ Len(history') = Len(history) + 1
              /\ SubSeq(history', 1, Len(history)) = history ]_vars

C14_Witness ==
    /\ Len(history) >= 6
    /\ pc = "completed"
    /\ HumanTurns(history) >= 3

\* C15: when a git command of the publish step fails, the session is
\* completed all the same and the file that save_html wrote holds the
\* extracted html.
C15_PublishFailureRecovered ==
    (git_log # <<>> /\ LastTurn(git_log).result = "fail") =>
        /\ pc = "completed"
        /\ push_ok = "failed"
        /\ index_html.written
        /\ html.found
        /\ index_html.content = html.text

C15_Witness ==
    /\ pc = "completed"
    /\ Len(git_log) = 2
    /\ git_log[2].result = "fail"
    /\ index_html.written

\* C16: a failed completion call is made once, appends no turn and leaves
\* the history and the loop's counters as they were; the session is then over:
\* it takes no further step and has extracted and published nothing.
C16_FailureAborts ==
    [][ /\ pc # "error"
        /\ pc' = "error" =>
              /\ pc = "agent"
              /\ api_calls' = api_calls + 1
              /\ history' = history
              /\ round_idx' = round_idx
              /\ agent_idx' = agent_idx
              /\ ~Released' ]_vars

C16_Witness ==
    /\ pc = "error"
    /\ api_key
    /\ Len(history) >= 5
    /\ api_calls = AgentTurns(history) + 1

\* C17: without credentials the session does not begin: there is no history
\* and no completion call is made.
C17_NoKeyNoSession ==
    ~api_key => (history = <<>> /\ api_calls = 0 /\ messages = <<>>)

\* C18: an approval given when the history holds a fenced html block writes
\* the file and runs the publish step.
C18_BlockIsPublished ==
    (pc = "completed" /\ AllBlocks(history) # <<>>) =>
        /\ index_html.written
        /\ git_log # <<>>

\* C19: the session never ends on the round cap while waiting for approval:
\* the step that sets waiting_for_approval leads to the prompt.
C19_CapOnlyWhileRotating ==
    /\ [](pc = "max_rounds" => ~waiting_for_approval)
    /\ [][ (~waiting_for_approval /\ waiting_for_approval') => pc' = "prompt" ]_vars

C19_Witness ==
    /\ pc = "prompt"
    /\ waiting_for_approval
    /\ round_idx = 2
    /\ HumanTurns(history) >= 2

\* C20: push_to_github runs add, commit, push in this order, goes on after a
\* command that succeeded or had nothing to commit, stops at the first command
\* that failed, and succeeds iff all three were run and none failed.
C20_PublishStepsInOrder ==
    git_log # <<>> =>
        /\ Len(git_log) <= 3
        /\ \A i \in 1..Len(git_log) :
              git_log[i].cmd = <<"add", "commit", "push">>[i]
        /\ \A i \in 1..(Len(git_log) - 1) :
              git_log[i].result \in {"ok", "nothing_to_commit"}
        /\ Len(git_log) < 3 => LastTurn(git_log).result = "fail"
        /\ (push_ok = "ok") = (Len(git_log) = 3 /\ LastTurn(git_log).result # "fail")
        /\ (push_ok = "failed") = (LastTurn(git_log).result = "fail")

C20_Witness ==
    /\ Len(git_log) = 3
    /\ git_log[2].result = "nothing_to_commit"
    /\ git_log[3].result = "ok"
    /\ push_ok = "ok"

====
